---------------------------- MODULE Spec2Model ----------------------------
(***************************************************************************)
(* A model of apyib's finite-difference rotational-strength core:          *)
(*   src/apyib/rotational_strength.py  (permutation engine, MO overlap,    *)
(*       phase correction, determinant overlap, AAT assembler)             *)
(*   src/apyib/finite_difference.py    (the perturbation driver)           *)
(*                                                                         *)
(* Numbers.  The code computes in complex128.  The model computes in exact *)
(* complex rationals: a number is a record [re, im, d] standing for        *)
(* (re + i*im)/d with d > 0 and gcd(re, im, d) = 1; d = 0 is NaN (what     *)
(* numpy yields for 0/0).  Rounding is therefore not modelled: equalities  *)
(* checked here are equalities of the real-arithmetic values.              *)
(***************************************************************************)
EXTENDS Integers, Sequences, FiniteSets, TLC

(***************************************************************************)
(* Bounds of the model.                                                    *)
(***************************************************************************)
\* largest number of basis functions (side of a coefficient/overlap matrix)
MaxNbf == 4
\* largest ndocc for which the double permutation sum is evaluated
MaxDetNdocc == 3
\* overlap matrices are drawn from the family MoMatrix(nbf, 0..MaxSeed)
MaxSeed == 11
\* largest nbf for which MO overlaps and phase corrections are evaluated
MaxPhaseNbf == 2
\* coefficient matrices are drawn from the family WfnMatrix(nbf, 0..MaxWfnSeed)
MaxWfnSeed == 9
\* largest number of compute_aat / compute_aat1 calls on one AAT instance
MaxCalls == 1
\* largest number of atoms of the molecule the driver displaces
MaxNatom == 1
\* the external solvers are the functions SolverWfn(0..MaxSolverSeed, ..)
MaxSolverSeed == 1
\* largest number of sweep calls made on one finite_difference object
MaxSweeps == 2

(***************************************************************************)
(* Complex rational arithmetic (numpy complex128 scalars, exact).          *)
(***************************************************************************)
Abs(x) == IF x < 0 THEN -x ELSE x

RECURSIVE Gcd(_, _)
Gcd(a, b) == IF b = 0 THEN a ELSE Gcd(b, a % b)

NaN == [re |-> 0, im |-> 0, d |-> 0]

IsNaN(z) == z.d = 0

\* the number (re + i*im)/d in lowest terms; d = 0 gives NaN
C(re, im, d) ==
    IF d = 0 THEN NaN
    ELSE LET g == Gcd(Gcd(Abs(re), Abs(im)), Abs(d))
             s == IF d < 0 THEN -1 ELSE 1
         IN [re |-> (s * re) \div g, im |-> (s * im) \div g, d |-> Abs(d) \div g]

R(n) == C(n, 0, 1)

CZero == R(0)
COne == R(1)
CI == C(0, 1, 1)

\* (sums are taken over the least common denominator and products after
\* cancelling across, which keeps the integers small)
CAdd(x, y) ==
    IF IsNaN(x) \/ IsNaN(y) THEN NaN
    ELSE LET g == Gcd(x.d, y.d)
             fx == y.d \div g
             fy == x.d \div g
         IN C(x.re * fx + y.re * fy, x.im * fx + y.im * fy, x.d * fx)

CNeg(x) == IF IsNaN(x) THEN NaN ELSE C(-x.re, -x.im, x.d)

CSub(x, y) == CAdd(x, CNeg(y))

CMul(x, y) ==
    IF IsNaN(x) \/ IsNaN(y) THEN NaN
    ELSE LET gx == Gcd(Gcd(Abs(x.re), Abs(x.im)), y.d)
             gy == Gcd(Gcd(Abs(y.re), Abs(y.im)), x.d)
             xr == x.re \div gx
             xi == x.im \div gx
             yr == y.re \div gy
             yi == y.im \div gy
         IN C(xr * yr - xi * yi, xr * yi + xi * yr, (x.d \div gy) * (y.d \div gx))

\* np.conjugate
CConj(x) == IF IsNaN(x) THEN NaN ELSE C(x.re, -x.im, x.d)

\* x / y on numpy scalars: a zero divisor raises nothing, 0/0 is nan+nanj
CDiv(x, y) ==
    IF IsNaN(x) \/ IsNaN(y) \/ (y.re = 0 /\ y.im = 0) THEN NaN
    ELSE C((x.re * y.re + x.im * y.im) * y.d,
           (x.im * y.re - x.re * y.im) * y.d,
           x.d * (y.re * y.re + y.im * y.im))

\* integer square root, defined on perfect squares
ISqrt(n) == CHOOSE r \in 0..n : r * r = n

IsSquare(n) == \E r \in 0..n : r * r = n

\* x is a non-negative real whose square root is rational
HasRationalSqrt(x) == ~IsNaN(x) /\ x.im = 0 /\ x.re >= 0 /\ IsSquare(x.re) /\ IsSquare(x.d)

\* np.sqrt on a non-negative real with a rational root (the only arguments
\* the model hands it: compute_phase takes the root of |z|^2)
CSqrt(x) == IF IsNaN(x) THEN NaN ELSE C(ISqrt(x.re), 0, ISqrt(x.d))

\* e, with v evaluated first.  TLC evaluates LET definitions and operator
\* arguments where they are used; naming the loop state here keeps the
\* evaluation of a long loop from nesting one iteration inside the next.
\* A local that holds a whole array is bound as x \in {array}: the array is
\* then built once, as the code builds it, and Strict(x, e) uses it in e.
Strict(v, e) == IF v = v THEN e ELSE e

RECURSIVE Factorial(_)
\* math.factorial
Factorial(n) == IF n <= 1 THEN 1 ELSE n * Factorial(n - 1)

(***************************************************************************)
(* Permutation engine: perm_parity and heaperm.  Lists are functions on    *)
(* 0..len-1 (the code's indices); the result lists b, p are sequences.     *)
(***************************************************************************)
\* np.arange(0, n)
Arange(n) == [i \in 0..(n - 1) |-> i]

ListLen(a) == Cardinality(DOMAIN a)

\* a[i], a[j] = a[j], a[i]
Swap(a, i, j) == [a EXCEPT ![i] = a[j], ![j] = a[i]]

\* min(range(i, len(a)), key=a.__getitem__): the first index of a least entry
ArgMinFrom(a, i) ==
    CHOOSE j \in i..(ListLen(a) - 1) :
        \A k \in i..(ListLen(a) - 1) : a[j] < a[k] \/ (a[j] = a[k] /\ j <= k)

RECURSIVE perm_parity_loop(_, _, _)
perm_parity_loop(a, parity, i) ==
    IF i >= ListLen(a) - 1 THEN parity
    ELSE IF a[i] # i
         THEN perm_parity_loop(Swap(a, i, ArgMinFrom(a, i)), -parity, i + 1)
         ELSE perm_parity_loop(a, parity, i + 1)

perm_parity(a) == perm_parity_loop(a, 1, 0)

\* mutant of heaperm_swap: the even branch also swaps with position 0
heaperm_swap_first(a, size, i) == Swap(a, 0, size - 1)

\* the swap heaperm makes after each recursive call
heaperm_swap(a, size, i) ==
    IF size % 2 = 1 THEN Swap(a, 0, size - 1) ELSE Swap(a, i, size - 1)

RECURSIVE heaperm(_, _)
RECURSIVE heaperm_loop(_, _, _)
\* st = [a, b, p]: the work list and the two result lists heaperm appends to
heaperm(st, size) ==
    IF size = 1
    THEN [a |-> st.a, b |-> Append(st.b, st.a), p |-> Append(st.p, perm_parity(st.a))]
    ELSE heaperm_loop(st, size, 0)

heaperm_loop(st, size, i) ==
    IF i >= size THEN st
    ELSE LET s1 == heaperm(st, size - 1)
             s2 == [s1 EXCEPT !.a = heaperm_swap(s1.a, size, i)]
         IN Strict(s2, heaperm_loop(s2, size, i + 1))

\* AAT.compute_perms: (parity, permutation) for self.ndocc
compute_perms(n) ==
    CHOOSE table \in {[parity |-> st.p, permutation |-> st.b] :
                         st \in {heaperm([a |-> Arange(n), b |-> << >>, p |-> << >>], n)}} : TRUE


(***************************************************************************)
(* State.                                                                  *)
(***************************************************************************)
VARIABLES
    nbf,          \* number of basis functions
    ndocc,        \* number of doubly occupied orbitals
    mo_overlap,   \* an MO overlap matrix handed to the determinant overlap
    perm_table,   \* what compute_perms returned: [done, parity, permutation]
    hf,           \* outcome of compute_hf_overlap(ndocc, mo_overlap)
    hf1,          \* outcome of AAT.compute_hf_overlap1(mo_overlap, parity, permutation)
    mints,        \* psi4's AO overlap: <<bra_basis, ket_basis>> -> real matrix
    unperturbed_basis,  \* the reference basis
    unperturbed_wfn,    \* the reference coefficients
    ket_basis,    \* a perturbed basis
    ket_wfn,      \* perturbed coefficients
    mo_ab,        \* outcome of compute_mo_overlap(reference, ket)
    mo_ba,        \* outcome of compute_mo_overlap(ket, reference)
    pc,           \* outcome of compute_phase(reference, ket_wfn)
    pc_again,     \* outcome of compute_phase(reference, pc)
    aat,          \* the fields of an AAT instance (self)
    alpha,        \* nuclear direction of the tensor element asked for
    beta,         \* field direction of the tensor element asked for
    aat_out,      \* the last compute_aat / compute_aat1 call: its locals and result
    aat_calls,    \* number of compute_aat / compute_aat1 calls so far
    heaperm_runs, \* number of top-level heaperm runs those calls made
    parameters,   \* the shared parameters dict: method, geom, F_el, F_mag
    molecule,     \* the geometry of self.molecule
    geom,         \* self.geom: the geometry read at construction
    natom,        \* self.natom
    orig,         \* the staged values at construction: [geom, F_el, F_mag]
    solver_seed,  \* which function the external solvers compute
    sweep,        \* the driver method running: nuclear, electric, magnetic
    pert_strength,\* its argument
    fd_calls,     \* number of sweep calls made on the object so far
    entry,        \* the staged state the running sweep was called in
    fd_pc,        \* where the driver is: idle, perturb, solve, reset, finish, returned, raised
    fd_sign,      \* pos (first loop) or neg (second loop)
    fd_alpha,     \* the loop variable alpha
    pert_geom,    \* the local pert_geom of nuclear_displacements
    H,            \* the Hamiltonian built last
    lists,        \* pos_e, neg_e, pos_wfns, neg_wfns, pos_basis, neg_basis, pos_t2, neg_t2
    retval        \* what the driver returned

sizeVars == <<nbf, ndocc>>
detVars == <<mo_overlap, perm_table, hf, hf1>>
refVars == <<mints, unperturbed_basis, unperturbed_wfn>>
phaseVars == <<ket_basis, ket_wfn, mo_ab, mo_ba, pc, pc_again>>
aatVars == <<aat, alpha, beta, aat_out, aat_calls, heaperm_runs>>
fdInputs == <<geom, natom, orig, solver_seed>>
fdVars == <<parameters, molecule, fdInputs, sweep, pert_strength, fd_calls, entry, fd_pc, fd_sign, fd_alpha,
            pert_geom, H, lists, retval>>

vars == <<sizeVars, detVars, refVars, phaseVars, aatVars, fdVars>>

\* an outcome of a call: it has not run, it returned value, or it raised
NotRun == [status |-> "none", value |-> NaN]
Returned(v) == [status |-> "ok", value |-> v]
Raised(e) == [status |-> e, value |-> NaN]
\* the same for a call that returns a matrix
NotRunM == [status |-> "none", value |-> << >>]

(***************************************************************************)
(* Determinant overlap: compute_hf_overlap and AAT.compute_hf_overlap1.    *)
(* A matrix is a function M[row][col] on 0..nbf-1; numpy's M[r, c].        *)
(***************************************************************************)
Dim(M) == Cardinality(DOMAIN M)

\* every index the product loop reads lies inside the lists and the matrix
InRange(M, parity, permutation, num_perms, n) ==
    /\ num_perms <= Len(parity)
    /\ num_perms <= Len(permutation)
    /\ \A k \in 1..num_perms : \A i \in 0..(n - 1) :
           /\ i \in DOMAIN permutation[k]
           /\ permutation[k][i] \in DOMAIN M

RECURSIVE mo_prod_loop(_, _, _, _, _, _)
\* for i in range(0, ndocc): mo_prod *= mo_overlap[row[i], col[i]]
mo_prod_loop(M, row, col, nd, i, acc) ==
    IF i >= nd THEN acc
    ELSE mo_prod_loop(M, row, col, nd, i + 1, CMul(acc, M[row[i]][col[i]]))

mo_prod(M, row, col, nd) == mo_prod_loop(M, row, col, nd, 0, COne)

\* mutant of hf_term: the 1/num_perms normalisation is left out
hf_term_unnormalised(M, parity, permutation, num_perms, nd, m, n) ==
    CMul(R(parity[m + 1] * parity[n + 1]),
         mo_prod(M, permutation[m + 1], permutation[n + 1], nd))

\* the term compute_hf_overlap adds for the pair (m, n): 1/num_perms * sign * mo_prod
hf_term(M, parity, permutation, num_perms, nd, m, n) ==
    CMul(CMul(C(1, 0, num_perms), R(parity[m + 1] * parity[n + 1])),
         mo_prod(M, permutation[m + 1], permutation[n + 1], nd))

RECURSIVE hf_loop_n(_, _, _, _, _, _, _, _)
\* for n in range(0, num_perms): hf_overlap += 1/num_perms * sign * mo_prod
hf_loop_n(M, parity, permutation, num_perms, nd, m, n, acc) ==
    IF n >= num_perms THEN acc
    ELSE LET acc2 == CAdd(acc, hf_term(M, parity, permutation, num_perms, nd, m, n))
         IN Strict(acc2, hf_loop_n(M, parity, permutation, num_perms, nd, m, n + 1, acc2))

RECURSIVE hf_loop_m(_, _, _, _, _, _, _)
\* for m in range(0, num_perms): the loop over n
hf_loop_m(M, parity, permutation, num_perms, nd, m, acc) ==
    IF m >= num_perms THEN acc
    ELSE LET acc2 == hf_loop_n(M, parity, permutation, num_perms, nd, m, 0, acc)
         IN Strict(acc2, hf_loop_m(M, parity, permutation, num_perms, nd, m + 1, acc2))

compute_hf_overlap(nd, M) ==
    CHOOSE hf_overlap \in
        {IF ~InRange(M, t.parity, t.permutation, Factorial(nd), nd)
         THEN Raised("IndexError")
         ELSE Returned(hf_loop_m(M, t.parity, t.permutation, Factorial(nd), nd, 0, CZero)) :
             t \in {compute_perms(nd)}} : TRUE

\* the term compute_hf_overlap1 adds for n: sign * mo_prod, rows from permutation[-1]
hf1_term(M, parity, permutation, nd, n) ==
    CMul(R(parity[n + 1]),
         mo_prod(M, permutation[Len(permutation)], permutation[n + 1], nd))

RECURSIVE hf1_loop(_, _, _, _, _, _)
\* for n in range(0, num_perms): hf_overlap += sign * mo_prod
hf1_loop(M, parity, permutation, nd, n, acc) ==
    IF n >= Len(permutation) THEN acc
    ELSE LET acc2 == CAdd(acc, hf1_term(M, parity, permutation, nd, n))
         IN Strict(acc2, hf1_loop(M, parity, permutation, nd, n + 1, acc2))

compute_hf_overlap1(nd, M, parity, permutation) ==
    IF ~InRange(M, parity, permutation, Len(permutation), nd)
    THEN Raised("IndexError")
    ELSE Returned(hf1_loop(M, parity, permutation, nd, 0, CZero))

(***************************************************************************)
(* The inputs of the determinant overlap: nbf, ndocc <= nbf and one matrix *)
(* of the family MoMatrix(nbf, 0..MaxSeed).                                *)
(***************************************************************************)
Identity(n) == [r \in 0..(n - 1) |-> [c \in 0..(n - 1) |-> IF r = c THEN COne ELSE CZero]]

\* the entries the family draws from
MoEntries == <<R(0), R(1), R(-1), CI, R(2), C(1, 1, 1), C(1, 0, 2), C(0, -1, 1)>>

\* seed 0 is the identity; the others spread MoEntries over the matrix
MoMatrix(n, seed) ==
    IF seed = 0 THEN Identity(n)
    ELSE [r \in 0..(n - 1) |-> [c \in 0..(n - 1) |->
            MoEntries[1 + ((seed * (3 * r + c + 1) + (seed \div (r + 2 * c + 1)) + r * c)
                           % Len(MoEntries))]]]

MoMatrices(n) == {MoMatrix(n, s) : s \in 0..MaxSeed}

\* the variables a specification does not use
DetIdle ==
    /\ mo_overlap = << >>
    /\ perm_table = [done |-> FALSE, parity |-> << >>, permutation |-> << >>]
    /\ hf = NotRun
    /\ hf1 = NotRun

RefIdle ==
    /\ mints = << >>
    /\ unperturbed_basis = "none"
    /\ unperturbed_wfn = << >>

PhaseIdle ==
    /\ ket_basis = "none"
    /\ ket_wfn = << >>
    /\ mo_ab = NotRunM
    /\ mo_ba = NotRunM
    /\ pc = NotRunM
    /\ pc_again = NotRunM

AatNotRun ==
    [fn |-> "none", status |-> "none", hf_calls |-> 0, hf_pp |-> NaN, hf_np |-> NaN,
     hf_pn |-> NaN, hf_nn |-> NaN, I |-> NaN]

AatIdle ==
    /\ aat = << >>
    /\ alpha = 0
    /\ beta = 0
    /\ aat_out = AatNotRun
    /\ aat_calls = 0
    /\ heaperm_runs = 0

NoLists ==
    [pos_e |-> << >>, neg_e |-> << >>, pos_wfns |-> << >>, neg_wfns |-> << >>,
     pos_basis |-> << >>, neg_basis |-> << >>, pos_t2 |-> << >>, neg_t2 |-> << >>]

NoHamiltonian == [built |-> FALSE, geom |-> << >>, F_el |-> << >>, F_mag |-> << >>,
                  basis_set |-> <<"none", 0>>]

NotReturned == [kind |-> "none", value |-> << >>]

FdIdle ==
    /\ parameters = << >>
    /\ molecule = << >>
    /\ geom = << >>
    /\ natom = 0
    /\ orig = << >>
    /\ solver_seed = 0
    /\ sweep = "none"
    /\ pert_strength = 0
    /\ fd_calls = 0
    /\ entry = << >>
    /\ fd_pc = "idle"
    /\ fd_sign = "pos"
    /\ fd_alpha = 0
    /\ pert_geom = << >>
    /\ H = NoHamiltonian
    /\ lists = NoLists
    /\ retval = NotReturned

DetInit ==
    /\ nbf \in 1..MaxNbf
    /\ ndocc \in 0..nbf
    /\ mo_overlap \in MoMatrices(nbf)
    /\ perm_table = [done |-> FALSE, parity |-> << >>, permutation |-> << >>]
    /\ hf = NotRun
    /\ hf1 = NotRun
    /\ RefIdle
    /\ PhaseIdle
    /\ AatIdle
    /\ FdIdle

\* parity, perms = self.compute_perms()
ComputePerms ==
    /\ ~perm_table.done
    /\ perm_table' = [done |-> TRUE] @@ compute_perms(ndocc)
    /\ UNCHANGED <<sizeVars, mo_overlap, hf, hf1, refVars, phaseVars, aatVars, fdVars>>

\* hf = compute_hf_overlap(self.ndocc, mo_overlap)
ComputeHfOverlap ==
    /\ hf.status = "none"
    /\ ndocc <= MaxDetNdocc
    /\ hf' = compute_hf_overlap(ndocc, mo_overlap)
    /\ UNCHANGED <<sizeVars, mo_overlap, perm_table, hf1, refVars, phaseVars, aatVars, fdVars>>

\* hf1 = self.compute_hf_overlap1(mo_overlap, parity, perms)
ComputeHfOverlap1 ==
    /\ perm_table.done
    /\ hf1.status = "none"
    /\ hf1' = compute_hf_overlap1(ndocc, mo_overlap, perm_table.parity, perm_table.permutation)
    /\ UNCHANGED <<sizeVars, mo_overlap, perm_table, hf, refVars, phaseVars, aatVars, fdVars>>

DetNext == ComputePerms \/ ComputeHfOverlap \/ ComputeHfOverlap1

SpecDet == DetInit /\ [][DetNext]_vars

(***************************************************************************)
(* MO overlap and phase correction: compute_mo_overlap, compute_phase.     *)
(* A coefficient matrix is C[mu][m] on 0..nbf-1 (numpy's C[mu, m]).        *)
(***************************************************************************)
\* mints.ao_overlap() when the bases are the same object, and
\* mints.ao_overlap(bra_basis, ket_basis) otherwise
ao_overlap(bra_basis, ket_basis_) ==
    IF bra_basis = ket_basis_ THEN mints[<<bra_basis, bra_basis>>]
    ELSE mints[<<bra_basis, ket_basis_>>]

\* mutant of mo_term: the bra coefficient is not conjugated
mo_term_no_conjugate(S, bra_wfn, ket_wfn_, m, n, mu, nu) ==
    CMul(CMul(bra_wfn[mu][m], S[mu][nu]), ket_wfn_[nu][n])

\* np.conjugate(np.transpose(bra_wfn[mu, m])) * ao_overlap[mu, nu] * ket_wfn[nu, n]
mo_term(S, bra_wfn, ket_wfn_, m, n, mu, nu) ==
    CMul(CMul(CConj(bra_wfn[mu][m]), S[mu][nu]), ket_wfn_[nu][n])

RECURSIVE mo_loop_nu(_, _, _, _, _, _, _, _, _)
\* for nu in range(0, nbf): mo_overlap[m, n] += ...
mo_loop_nu(S, bra_wfn, ket_wfn_, nb, m, n, mu, nu, acc) ==
    IF nu >= nb THEN acc
    ELSE LET acc2 == CAdd(acc, mo_term(S, bra_wfn, ket_wfn_, m, n, mu, nu))
         IN Strict(acc2, mo_loop_nu(S, bra_wfn, ket_wfn_, nb, m, n, mu, nu + 1, acc2))

RECURSIVE mo_loop_mu(_, _, _, _, _, _, _, _)
\* for mu in range(0, nbf): the loop over nu
mo_loop_mu(S, bra_wfn, ket_wfn_, nb, m, n, mu, acc) ==
    IF mu >= nb THEN acc
    ELSE LET acc2 == mo_loop_nu(S, bra_wfn, ket_wfn_, nb, m, n, mu, 0, acc)
         IN Strict(acc2, mo_loop_mu(S, bra_wfn, ket_wfn_, nb, m, n, mu + 1, acc2))

\* the matrix compute_mo_overlap returns: zeros_like(ao_overlap), with the
\* entries m, n < nbf accumulated by the quadruple loop
compute_mo_overlap(nd, nb, bra_basis, bra_wfn, ket_basis_, ket_wfn_) ==
    CHOOSE mo \in
        {[m \in DOMAIN S |-> [n \in DOMAIN S[m] |->
             IF m < nb /\ n < nb
             THEN mo_loop_mu(S, bra_wfn, ket_wfn_, nb, m, n, 0, CZero)
             ELSE CZero]] :
                S \in {ao_overlap(bra_basis, ket_basis_)}} : TRUE

\* np.conjugate(np.transpose(M))
ConjTranspose(M) == [m \in DOMAIN M |-> [n \in DOMAIN M |-> CConj(M[n][m])]]

\* N = np.sqrt(mo_overlap1[m][m] * mo_overlap2[m][m])
phase_norm(mo_overlap1, m) ==
    CSqrt(CMul(mo_overlap1[m][m], ConjTranspose(mo_overlap1)[m][m]))

\* phase_factor = mo_overlap1[m][m] / N
phase_factor(mo_overlap1, m) == CDiv(mo_overlap1[m][m], phase_norm(mo_overlap1, m))

\* mutant of phase_column: multiplies by the phase factor, not by its inverse
phase_column_not_inverted(ket_wfn_, mo_overlap1, mu, m) ==
    CAdd(CZero, CMul(ket_wfn_[mu][m], phase_factor(mo_overlap1, m)))

\* new_ket_wfn[mu][m] += ket_wfn[mu][m] * (phase_factor ** -1), from zero
phase_column(ket_wfn_, mo_overlap1, mu, m) ==
    CAdd(CZero, CMul(ket_wfn_[mu][m], CDiv(COne, phase_factor(mo_overlap1, m))))

\* compute_phase returns new_ket_wfn; no statement of it raises
compute_phase(nd, nb, unperturbed_basis_, unperturbed_wfn_, ket_basis_, ket_wfn_) ==
    CHOOSE new_ket_wfn \in
        {Strict(mo_overlap1,
                [mu \in DOMAIN ket_wfn_ |-> [m \in DOMAIN ket_wfn_[mu] |->
                    IF mu < nb /\ m < nb THEN phase_column(ket_wfn_, mo_overlap1, mu, m)
                    ELSE CZero]]) :
            mo_overlap1 \in {compute_mo_overlap(nd, nb, unperturbed_basis_, unperturbed_wfn_,
                                                ket_basis_, ket_wfn_)}} : TRUE

(***************************************************************************)
(* The inputs of the MO overlap and of the phase correction: a reference   *)
(* and a perturbed wavefunction of the family WfnMatrix, and the AO        *)
(* overlaps psi4 would give for their bases.                               *)
(***************************************************************************)
Bases == {"b0", "b1"}

\* the entries coefficient matrices draw from; all have a rational modulus
WfnEntries == <<R(1), R(0), R(-1), CI, C(3, 4, 5), C(0, -2, 1), C(3, 4, 1), C(-4, 3, 5)>>

WfnMatrix(n, seed) ==
    [mu \in 0..(n - 1) |-> [m \in 0..(n - 1) |->
        IF seed = 0 THEN (IF mu = m THEN COne ELSE CZero)
        ELSE WfnEntries[1 + ((seed * (2 * mu + m + 1) + (seed \div (mu + 2 * m + 2)) + mu)
                             % Len(WfnEntries))]]]

WfnMatrices(n) == {WfnMatrix(n, s) : s \in 0..MaxWfnSeed}

Transpose(M) == [r \in DOMAIN M |-> [c \in DOMAIN M |-> M[c][r]]]

\* a real self overlap (symmetric, unit diagonal) and a real cross overlap
SelfOverlap(n, k) ==
    [r \in 0..(n - 1) |-> [c \in 0..(n - 1) |-> IF r = c THEN R(1) ELSE C(k, 0, 2)]]

CrossOverlap(n, k) ==
    [r \in 0..(n - 1) |-> [c \in 0..(n - 1) |->
        IF r = c THEN R(1) ELSE IF r < c THEN C(k, 0, 2) ELSE R(0)]]

\* the AO overlap tables: S(b, b) symmetric, S(b1, b0) the transpose of S(b0, b1)
MintsTables(n) ==
    {[bk \in Bases \X Bases |->
         IF bk[1] = bk[2] THEN SelfOverlap(n, k)
         ELSE IF bk[1] = "b0" THEN CrossOverlap(n, j) ELSE Transpose(CrossOverlap(n, j))]
     : k \in {0, 1}, j \in {0, 1}}

\* the modulus of every diagonal reference/ket overlap is rational (or zero):
\* the square root compute_phase takes is then a number of the model
PhaseRepresentable(nd, nb, ub, uw, kb, kw) ==
    LET o == compute_mo_overlap(nd, nb, ub, uw, kb, kw)
    IN \A m \in 0..(nb - 1) : HasRationalSqrt(CMul(o[m][m], CConj(o[m][m])))

\* a reference and a perturbed wavefunction with their bases and AO overlaps
PhaseInit ==
    /\ nbf \in 1..MaxPhaseNbf
    /\ ndocc = 1
    /\ mints \in MintsTables(nbf)
    /\ unperturbed_basis = "b0"
    /\ unperturbed_wfn \in WfnMatrices(nbf)
    /\ ket_basis \in Bases
    /\ ket_wfn \in WfnMatrices(nbf)
    /\ mo_ab = NotRunM
    /\ mo_ba = NotRunM
    /\ pc = NotRunM
    /\ pc_again = NotRunM
    /\ DetIdle
    /\ AatIdle
    /\ FdIdle

\* compute_mo_overlap(ndocc, nbf, unperturbed_basis, unperturbed_wfn, ket_basis, ket_wfn)
MoOverlapRefKet ==
    /\ mo_ab.status = "none"
    /\ mo_ab' = Returned(compute_mo_overlap(ndocc, nbf, unperturbed_basis, unperturbed_wfn,
                                            ket_basis, ket_wfn))
    /\ UNCHANGED <<sizeVars, detVars, refVars, aatVars, fdVars, ket_basis, ket_wfn, mo_ba, pc, pc_again>>

\* compute_mo_overlap(ndocc, nbf, ket_basis, ket_wfn, unperturbed_basis, unperturbed_wfn)
MoOverlapKetRef ==
    /\ mo_ba.status = "none"
    /\ mo_ba' = Returned(compute_mo_overlap(ndocc, nbf, ket_basis, ket_wfn,
                                            unperturbed_basis, unperturbed_wfn))
    /\ UNCHANGED <<sizeVars, detVars, refVars, aatVars, fdVars, ket_basis, ket_wfn, mo_ab, pc, pc_again>>

\* pc = compute_phase(ndocc, nbf, unperturbed_basis, unperturbed_wfn, ket_basis, ket_wfn)
\* (taken for the inputs whose phase factors the model's numbers can hold)
ComputePhase ==
    /\ pc.status = "none"
    /\ PhaseRepresentable(ndocc, nbf, unperturbed_basis, unperturbed_wfn, ket_basis, ket_wfn)
    /\ pc' = Returned(compute_phase(ndocc, nbf, unperturbed_basis, unperturbed_wfn,
                                    ket_basis, ket_wfn))
    /\ UNCHANGED <<sizeVars, detVars, refVars, aatVars, fdVars, ket_basis, ket_wfn, mo_ab, mo_ba, pc_again>>

\* compute_phase(ndocc, nbf, unperturbed_basis, unperturbed_wfn, ket_basis, pc)
ComputePhaseAgain ==
    /\ pc.status = "ok"
    /\ pc_again.status = "none"
    /\ pc_again' = Returned(compute_phase(ndocc, nbf, unperturbed_basis, unperturbed_wfn,
                                          ket_basis, pc.value))
    /\ UNCHANGED <<sizeVars, detVars, refVars, aatVars, fdVars, ket_basis, ket_wfn, mo_ab, mo_ba, pc>>

MoNext == MoOverlapRefKet \/ MoOverlapKetRef

\* the MO overlap of two wavefunctions, taken in both orders
SpecMo == PhaseInit /\ [][MoNext]_vars

PhaseNext == ComputePhase \/ ComputePhaseAgain

\* the phase correction of a wavefunction, and of its result again
SpecPhase == PhaseInit /\ [][PhaseNext]_vars

(***************************************************************************)
(* The AAT assembler: class AAT, compute_aat and compute_aat1.  self is a  *)
(* record of the fields __init__ stores.                                   *)
(***************************************************************************)
\* compute_phase(self.ndocc, self.nbf, self.unperturbed_basis, self.unperturbed_wfn, basis, wfn)
aat_phase(self, basis, wfn) ==
    compute_phase(self.ndocc, self.nbf, self.unperturbed_basis, self.unperturbed_wfn, basis, wfn)

pc_nuc_pos_wfn(self, a) == aat_phase(self, self.nuc_pos_basis[a], self.nuc_pos_wfn[a])
pc_nuc_neg_wfn(self, a) == aat_phase(self, self.nuc_neg_basis[a], self.nuc_neg_wfn[a])
pc_mag_pos_wfn(self, b) == aat_phase(self, self.mag_pos_basis[b], self.mag_pos_wfn[b])
pc_mag_neg_wfn(self, b) == aat_phase(self, self.mag_neg_basis[b], self.mag_neg_wfn[b])

\* the four MO overlaps of the phase-corrected wavefunctions
aat_mo_overlaps(self, a, b) ==
    CHOOSE mo \in
        {Strict(pcs,
           [pp |-> compute_mo_overlap(self.ndocc, self.nbf, self.nuc_pos_basis[a], pcs[1],
                                      self.mag_pos_basis[b], pcs[3]),
            np |-> compute_mo_overlap(self.ndocc, self.nbf, self.nuc_neg_basis[a], pcs[2],
                                      self.mag_pos_basis[b], pcs[3]),
            pn |-> compute_mo_overlap(self.ndocc, self.nbf, self.nuc_pos_basis[a], pcs[1],
                                      self.mag_neg_basis[b], pcs[4]),
            nn |-> compute_mo_overlap(self.ndocc, self.nbf, self.nuc_neg_basis[a], pcs[2],
                                      self.mag_neg_basis[b], pcs[4])]) :
              pcs \in {<<pc_nuc_pos_wfn(self, a), pc_nuc_neg_wfn(self, a),
                         pc_mag_pos_wfn(self, b), pc_mag_neg_wfn(self, b)>>}} : TRUE

\* mutant of aat_stencil: the hf_pn term enters with the wrong sign
aat_stencil_wrong_sign(nuc_pert_strength, mag_pert_strength, pp, np, pn, nn) ==
    CMul(CDiv(COne, CMul(CMul(R(2), nuc_pert_strength), mag_pert_strength)),
         CAdd(CAdd(CSub(pp, np), pn), nn))

\* I = (1 / (2 * nuc_pert_strength * mag_pert_strength)) * (hf_pp - hf_np - hf_pn + hf_nn)
aat_stencil(nuc_pert_strength, mag_pert_strength, pp, np, pn, nn) ==
    CMul(CDiv(COne, CMul(CMul(R(2), nuc_pert_strength), mag_pert_strength)),
         CAdd(CSub(CSub(pp, np), pn), nn))

\* the locals and the result of a call whose four determinant overlaps are
\* the outcomes pp, np, pn, nn (an IndexError of any of them propagates)
\* (hfs = <<hf_pp, hf_np, hf_pn, hf_nn>>); hf_calls counts the determinant
\* overlap calls made: the first one that raises ends the call
hf_calls_made(hfs) ==
    IF \E k \in 1..4 : hfs[k].status # "ok"
    THEN CHOOSE k \in 1..4 : hfs[k].status # "ok" /\ \A j \in 1..(k - 1) : hfs[j].status = "ok"
    ELSE 4

hf_local(hfs, k) == IF k < hf_calls_made(hfs) THEN hfs[k].value ELSE NaN

aat_result(self, fn, hfs) ==
    IF \E k \in 1..4 : hfs[k].status # "ok"
    THEN [fn |-> fn, status |-> "IndexError", hf_calls |-> hf_calls_made(hfs),
          hf_pp |-> hf_local(hfs, 1), hf_np |-> hf_local(hfs, 2),
          hf_pn |-> hf_local(hfs, 3), hf_nn |-> hf_local(hfs, 4), I |-> NaN]
    ELSE [fn |-> fn, status |-> "ok", hf_calls |-> 4,
          hf_pp |-> hfs[1].value, hf_np |-> hfs[2].value,
          hf_pn |-> hfs[3].value, hf_nn |-> hfs[4].value,
          I |-> aat_stencil(self.nuc_pert_strength, self.mag_pert_strength,
                            hfs[1].value, hfs[2].value, hfs[3].value, hfs[4].value)]

compute_aat(self, a, b) ==
    CHOOSE out \in
        {Strict(mo,
           CHOOSE r \in {aat_result(self, "compute_aat", hfs) :
                            hfs \in {<<compute_hf_overlap(self.ndocc, mo.pp),
                                      compute_hf_overlap(self.ndocc, mo.np),
                                      compute_hf_overlap(self.ndocc, mo.pn),
                                      compute_hf_overlap(self.ndocc, mo.nn)>>}} : TRUE) :
              mo \in {aat_mo_overlaps(self, a, b)}} : TRUE

compute_aat1(self, a, b) ==
    CHOOSE out \in
        {Strict(mo,
           CHOOSE r \in {aat_result(self, "compute_aat1", hfs) :
                            hfs \in {<<compute_hf_overlap1(self.ndocc, mo.pp, t.parity, t.permutation),
                                      compute_hf_overlap1(self.ndocc, mo.np, t.parity, t.permutation),
                                      compute_hf_overlap1(self.ndocc, mo.pn, t.parity, t.permutation),
                                      compute_hf_overlap1(self.ndocc, mo.nn, t.parity, t.permutation)>>}} :
                 TRUE) :
              mo \in {aat_mo_overlaps(self, a, b)}, t \in {compute_perms(self.ndocc)}} : TRUE

(***************************************************************************)
(* The inputs of the AAT assembler: samples for one atom (3 nuclear and 3  *)
(* field directions), their bases, and the AO overlaps between the bases.  *)
(***************************************************************************)
AatBases == {"b0", "np", "nn", "mp", "mn"}

\* the scale of the AO overlap between two displaced bases
OverlapScale(x, y) ==
    IF {x, y} = {"nn", "mp"} THEN C(1, 0, 2)
    ELSE IF {x, y} = {"np", "mn"} THEN C(3, 0, 10)
    ELSE IF {x, y} = {"nn", "mn"} THEN C(9, 0, 10)
    ELSE R(1)

AatMints(n) ==
    [bk \in AatBases \X AatBases |->
        [r \in 0..(n - 1) |-> [c \in 0..(n - 1) |->
            CMul(OverlapScale(bk[1], bk[2]), SelfOverlap(n, 1)[r][c])]]]

StepSizes == {<<C(1, 0, 100), C(1, 0, 100)>>, <<C(1, 0, 20), C(1, 0, 50)>>}

\* orbitals with real coefficients (unit diagonal), each column times a phase
\* of modulus 1: what independently converged solver calls return
UnitPhases == <<R(1), R(-1), CI, C(3, 4, 5), C(0, -1, 1), C(-4, 3, 5)>>

RealEntries == <<C(1, 0, 2), R(0), R(-1), R(1), C(-1, 0, 2), R(2)>>

PhasedMatrix(n, seed) ==
    [mu \in 0..(n - 1) |-> [m \in 0..(n - 1) |->
        IF seed = 0 THEN (IF mu = m THEN COne ELSE CZero)
        ELSE CMul(UnitPhases[1 + ((seed * (m + 1) + (seed \div (m + 2))) % Len(UnitPhases))],
                  IF mu = m THEN COne
                  ELSE RealEntries[1 + ((seed * (2 * mu + m + 1) + mu) % Len(RealEntries))])]]

\* one sample per direction d; seed 0 is the unit matrix in every direction
Samples(n, seed) == [d \in 0..2 |-> PhasedMatrix(n, seed * (d + 1))]

\* the negative samples are the positive ones (same = TRUE) or their own
AatInstances(n, nd) ==
    {[nbf |-> n, ndocc |-> nd,
      unperturbed_basis |-> "b0", unperturbed_wfn |-> PhasedMatrix(n, 5),
      nuc_pos_basis |-> [d \in 0..2 |-> "np"],
      nuc_neg_basis |-> [d \in 0..2 |-> IF nsame THEN "np" ELSE "nn"],
      nuc_pos_wfn |-> Samples(n, 3),
      nuc_neg_wfn |-> IF nsame THEN Samples(n, 3) ELSE Samples(n, 4),
      mag_pos_basis |-> [d \in 0..2 |-> "mp"],
      mag_neg_basis |-> [d \in 0..2 |-> IF msame THEN "mp" ELSE "mn"],
      mag_pos_wfn |-> Samples(n, 1),
      mag_neg_wfn |-> IF msame THEN Samples(n, 1) ELSE Samples(n, 2),
      nuc_pert_strength |-> st[1], mag_pert_strength |-> st[2]]
     : nsame \in BOOLEAN, msame \in BOOLEAN, st \in StepSizes}

AatInit ==
    /\ nbf \in 1..MaxPhaseNbf
    /\ ndocc \in 0..nbf
    /\ mints = AatMints(nbf)
    /\ aat \in AatInstances(nbf, ndocc)
    /\ unperturbed_basis = aat.unperturbed_basis
    /\ unperturbed_wfn = aat.unperturbed_wfn
    /\ alpha \in 0..2
    /\ beta \in 0..2
    /\ aat_out = AatNotRun
    /\ aat_calls = 0
    /\ heaperm_runs = 0
    /\ DetIdle
    /\ PhaseIdle
    /\ FdIdle

\* I = AAT.compute_aat(alpha, beta): up to four compute_hf_overlap calls, each
\* of which runs heaperm before it can raise
ComputeAat ==
    /\ aat_calls < MaxCalls
    /\ aat_out' = compute_aat(aat, alpha, beta)
    /\ aat_calls' = aat_calls + 1
    /\ heaperm_runs' = heaperm_runs + aat_out'.hf_calls
    /\ UNCHANGED <<sizeVars, detVars, refVars, phaseVars, fdVars, aat, alpha, beta>>

\* I = AAT.compute_aat1(alpha, beta): one compute_perms call, which runs heaperm
ComputeAat1 ==
    /\ aat_calls < MaxCalls
    /\ aat_out' = compute_aat1(aat, alpha, beta)
    /\ aat_calls' = aat_calls + 1
    /\ heaperm_runs' = heaperm_runs + 1
    /\ UNCHANGED <<sizeVars, detVars, refVars, phaseVars, fdVars, aat, alpha, beta>>

AatNext == ComputeAat \/ ComputeAat1

SpecAat == AatInit /\ [][AatNext]_vars

(***************************************************************************)
(* The finite-difference driver.  Coordinates, field components and step   *)
(* sizes are integers counting one fixed unit, so += and -= are exact.     *)
(* Hamiltonian, hf_wfn, mp2_wfn, ci_wfn and run_psi4 are not part of the   *)
(* two source files: a build records what it was built from, and a solver  *)
(* is a function of the direction solved, picked by solver_seed, or raises.*)
(***************************************************************************)
\* the three methods the branches test, the name the return statement tests,
\* and a name no statement tests
Methods == {"HF", "MP2", "CID", "RHF", "CCSD"}

Sweeps == {"nuclear", "electric", "magnetic"}

\* the pert_strength arguments the sweeps are called with
PertStrengths == {1}

\* the geometry the molecule is constructed with: natom rows of 3 coordinates
StartGeometry(n) == [a \in 0..(n - 1) |-> [x \in 0..2 |-> 10 * a + 2 * x]]

\* the field vectors parameters['F_el'] and parameters['F_mag'] start with
StartFields == {[x \in 0..2 |-> 5 * (x - 1)]}

RefBasis == <<"ref", 0>>

\* the basis-set object of the Hamiltonian built for a direction
BuiltBasis(sign, a) == <<sign, a>>

FdBases(n) == {RefBasis} \cup ({"pos", "neg"} \X (0..(3 * n - 1)))

FdMints(nb, n) == [bk \in FdBases(n) \X FdBases(n) |-> SelfOverlap(nb, 1)]

\* molecule.create_psi4_string_from_molecule(): the text of a geometry
create_psi4_string_from_molecule(g) == [text_of |-> g]

\* range(3*self.natom) for the nuclear sweep, range(3) for a field sweep
NumDirections == IF sweep = "nuclear" THEN 3 * natom ELSE 3

\* pert_geom[alpha // 3][alpha % 3] += step, on a copy of self.geom
displaced_geometry(g, a, step) ==
    [g EXCEPT ![a \div 3] = [g[a \div 3] EXCEPT ![a % 3] = g[a \div 3][a % 3] + step]]

\* self.parameters[key][alpha] += step
displaced_field(F, a, step) == [F EXCEPT ![a] = F[a] + step]

\* Hamiltonian(self.parameters)
Hamiltonian(params, sign, a) ==
    [built |-> TRUE, geom |-> params.geom, F_el |-> params.F_el, F_mag |-> params.F_mag,
     basis_set |-> BuiltBasis(sign, a)]

\* wfn.solve_SCF(self.parameters): e_tot and C
SolverEnergy(sign, a) == -100 - 7 * solver_seed + (IF sign = "pos" THEN a ELSE -a)

SolverWfn(sign, a) ==
    PhasedMatrix(nbf, 1 + solver_seed + 2 * a + (IF sign = "pos" THEN 0 ELSE 1))

\* wfn_MP2.solve_MP2() / wfn_CID.solve_CID(): correlation energy and amplitudes
CorrelationEnergy(method) == IF method = "MP2" THEN -2 ELSE -3

Amplitudes(method, sign, a) == <<method, sign, a>>

FdInit ==
    /\ natom \in 1..MaxNatom
    /\ nbf = natom
    /\ ndocc = 1
    /\ geom = StartGeometry(natom)
    /\ molecule = geom
    /\ \E method \in Methods, F_el \in StartFields, F_mag \in StartFields :
          /\ F_el = F_mag
          /\ parameters = [method |-> method, geom |-> create_psi4_string_from_molecule(geom),
                           F_el |-> F_el, F_mag |-> F_mag]
    /\ orig = [geom |-> geom, text |-> parameters.geom,
               F_el |-> parameters.F_el, F_mag |-> parameters.F_mag]
    /\ solver_seed \in 0..MaxSolverSeed
    /\ unperturbed_basis = RefBasis
    /\ unperturbed_wfn = PhasedMatrix(nbf, 5)
    /\ mints = FdMints(nbf, natom)
    /\ sweep = "none"
    /\ pert_strength = 0
    /\ fd_calls = 0
    /\ entry = << >>
    /\ fd_pc = "idle"
    /\ fd_sign = "pos"
    /\ fd_alpha = 0
    /\ pert_geom = << >>
    /\ H = NoHamiltonian
    /\ lists = NoLists
    /\ retval = NotReturned
    /\ DetIdle
    /\ PhaseIdle
    /\ AatIdle

fdOther == <<sizeVars, detVars, refVars, phaseVars, aatVars, fdInputs>>

\* a sweep is called, on a new object or on one whose earlier sweep returned
\* or raised: it starts in the staged state that sweep left, with a new
\* frame (eight empty lists, no pert_geom, no H), and enters its first loop
BeginSweep ==
    /\ fd_pc \in {"idle", "returned", "raised"}
    /\ fd_calls < MaxSweeps
    /\ fd_calls' = fd_calls + 1
    /\ \E sw \in Sweeps, step \in PertStrengths :
          /\ sweep' = sw
          /\ pert_strength' = step
    /\ entry' = [molecule |-> molecule, geom |-> parameters.geom,
                 F_el |-> parameters.F_el, F_mag |-> parameters.F_mag]
    /\ lists' = NoLists
    /\ pert_geom' = << >>
    /\ H' = NoHamiltonian
    /\ retval' = NotReturned
    /\ fd_sign' = "pos"
    /\ fd_alpha' = 0
    /\ fd_pc' = "perturb"
    /\ UNCHANGED <<fdOther, parameters, molecule>>

SignedStep == IF fd_sign = "pos" THEN pert_strength ELSE -pert_strength

\* the head of an iteration: the staged state is displaced along alpha
Perturb ==
    /\ fd_pc = "perturb"
    /\ IF sweep = "nuclear"
       THEN /\ pert_geom' = displaced_geometry(geom, fd_alpha, SignedStep)
            /\ molecule' = pert_geom'
            /\ parameters' = [parameters EXCEPT
                                 !.geom = create_psi4_string_from_molecule(molecule')]
       ELSE IF sweep = "electric"
       THEN /\ parameters' = [parameters EXCEPT
                                 !.F_el = displaced_field(@, fd_alpha, SignedStep)]
            /\ UNCHANGED <<pert_geom, molecule>>
       ELSE /\ parameters' = [parameters EXCEPT
                                 !.F_mag = displaced_field(@, fd_alpha, SignedStep)]
            /\ UNCHANGED <<pert_geom, molecule>>
    /\ fd_pc' = "solve"
    /\ UNCHANGED <<fdOther, sweep, pert_strength, fd_calls, entry, fd_sign, fd_alpha, H, lists, retval>>

append_e(ls, e) ==
    IF fd_sign = "pos" THEN [ls EXCEPT !.pos_e = Append(@, e)]
    ELSE [ls EXCEPT !.neg_e = Append(@, e)]

append_wfns(ls, w) ==
    IF fd_sign = "pos" THEN [ls EXCEPT !.pos_wfns = Append(@, w)]
    ELSE [ls EXCEPT !.neg_wfns = Append(@, w)]

append_t2(ls, t) ==
    IF fd_sign = "pos" THEN [ls EXCEPT !.pos_t2 = Append(@, t)]
    ELSE [ls EXCEPT !.neg_t2 = Append(@, t)]

append_basis(ls, b) ==
    IF fd_sign = "pos" THEN [ls EXCEPT !.pos_basis = Append(@, b)]
    ELSE [ls EXCEPT !.neg_basis = Append(@, b)]

\* the three method branches of an iteration, then the append of H.basis_set
record_direction(ls, method, Hb, e_tot, Cw) ==
    LET pc_C == compute_phase(ndocc, nbf, unperturbed_basis, unperturbed_wfn, Hb.basis_set, Cw)
        hf_ls == IF method = "HF" THEN append_wfns(append_e(ls, e_tot), Cw) ELSE ls
        mp2_ls == IF method = "MP2"
                  THEN append_t2(append_wfns(append_e(hf_ls, e_tot + CorrelationEnergy("MP2")),
                                             Strict(pc_C, pc_C)),
                                 Amplitudes("MP2", fd_sign, fd_alpha))
                  ELSE hf_ls
        cid_ls == IF method = "CID"
                  THEN append_t2(append_wfns(append_e(mp2_ls, e_tot + CorrelationEnergy("CID")),
                                             Strict(pc_C, pc_C)),
                                 Amplitudes("CID", fd_sign, fd_alpha))
                  ELSE mp2_ls
    IN append_basis(cid_ls, Hb.basis_set)

\* the body of an iteration when every build and solver call returns
SolveDirection ==
    /\ fd_pc = "solve"
    /\ H' = Hamiltonian(parameters, fd_sign, fd_alpha)
    /\ lists' = record_direction(lists, parameters.method, H',
                                 SolverEnergy(fd_sign, fd_alpha), SolverWfn(fd_sign, fd_alpha))
    /\ fd_pc' = "reset"
    /\ UNCHANGED <<fdOther, parameters, molecule, sweep, pert_strength, fd_calls,
                   entry, fd_sign, fd_alpha,
                   pert_geom, retval>>

\* mutant of SolveRaises: the staged state is set back on the error path, as
\* a try/finally around the iteration would
SolveRaisesRestoring ==
    /\ fd_pc = "solve"
    /\ fd_pc' = "raised"
    /\ retval' = [kind |-> "exception", value |-> << >>]
    /\ \E in_build \in BOOLEAN :
          H' = IF in_build THEN H ELSE Hamiltonian(parameters, fd_sign, fd_alpha)
    /\ molecule' = geom
    /\ parameters' = [parameters EXCEPT !.geom = create_psi4_string_from_molecule(geom),
                                        !.F_el = entry.F_el, !.F_mag = entry.F_mag]
    /\ UNCHANGED <<fdOther, sweep, pert_strength, fd_calls, entry, fd_sign, fd_alpha, pert_geom,
                   lists>>

\* a call of the iteration body raises and nothing in the driver catches it:
\* the Hamiltonian build itself (H is not rebound), or a solver call after
\* it (H is the Hamiltonian of this direction); nothing has been appended
SolveRaises ==
    /\ fd_pc = "solve"
    /\ fd_pc' = "raised"
    /\ retval' = [kind |-> "exception", value |-> << >>]
    /\ \E in_build \in BOOLEAN :
          H' = IF in_build THEN H ELSE Hamiltonian(parameters, fd_sign, fd_alpha)
    /\ UNCHANGED <<fdOther, parameters, molecule, sweep, pert_strength, fd_calls, entry,
                   fd_sign, fd_alpha, pert_geom, lists>>

\* the last statement of an iteration ("Reset the geometry." / "Reset the
\* field.") and the step of the for loop
EndDirection ==
    /\ fd_pc = "reset"
    /\ IF sweep = "nuclear"
       THEN /\ pert_geom' = geom
            /\ UNCHANGED <<parameters, molecule>>
       ELSE IF sweep = "electric"
       THEN /\ parameters' = [parameters EXCEPT
                                 !.F_el = displaced_field(@, fd_alpha, -SignedStep)]
            /\ UNCHANGED <<pert_geom, molecule>>
       ELSE /\ parameters' = [parameters EXCEPT
                                 !.F_mag = displaced_field(@, fd_alpha, -SignedStep)]
            /\ UNCHANGED <<pert_geom, molecule>>
    /\ IF fd_alpha + 1 < NumDirections
       THEN /\ fd_alpha' = fd_alpha + 1
            /\ fd_pc' = "perturb"
            /\ UNCHANGED fd_sign
       ELSE IF fd_sign = "pos"
       THEN /\ fd_alpha' = 0
            /\ fd_sign' = "neg"
            /\ fd_pc' = "perturb"
       ELSE /\ fd_pc' = "finish"
            /\ UNCHANGED <<fd_alpha, fd_sign>>
    /\ UNCHANGED <<fdOther, sweep, pert_strength, fd_calls, entry, H, lists, retval>>

\* the return statement: 'RHF' gives six lists, 'MP2' and 'CID' eight, and
\* any other method falls off the end of the function
sweep_return(method, ls) ==
    IF method = "RHF"
    THEN [kind |-> "tuple",
          value |-> <<ls.pos_e, ls.neg_e, ls.pos_wfns, ls.neg_wfns, ls.pos_basis, ls.neg_basis>>]
    ELSE IF method = "MP2" \/ method = "CID"
    THEN [kind |-> "tuple",
          value |-> <<ls.pos_e, ls.neg_e, ls.pos_wfns, ls.neg_wfns, ls.pos_basis, ls.neg_basis,
                      ls.pos_t2, ls.neg_t2>>]
    ELSE [kind |-> "None", value |-> << >>]

\* after both loops: the nuclear sweep sets the geometry back, then the return
FinishSweep ==
    /\ fd_pc = "finish"
    /\ IF sweep = "nuclear"
       THEN /\ molecule' = geom
            /\ parameters' = [parameters EXCEPT
                                 !.geom = create_psi4_string_from_molecule(molecule')]
       ELSE UNCHANGED <<parameters, molecule>>
    /\ retval' = sweep_return(parameters.method, lists)
    /\ fd_pc' = "returned"
    /\ UNCHANGED <<fdOther, sweep, pert_strength, fd_calls, entry, fd_sign, fd_alpha, pert_geom, H, lists>>

FdNext == BeginSweep \/ Perturb \/ SolveDirection \/ SolveRaises \/ EndDirection \/ FinishSweep

SpecFd == FdInit /\ [][FdNext]_vars

(***************************************************************************)
(* Reference notions the claims are stated with (none of them is code):    *)
(* the sign of a permutation by counting inversions, and the determinant   *)
(* by the Leibniz expansion over all bijections.                           *)
(***************************************************************************)
IsPermutationOf(f, n) ==
    /\ DOMAIN f = 0..(n - 1)
    /\ \A i \in 0..(n - 1) : f[i] \in 0..(n - 1)
    /\ \A i, j \in 0..(n - 1) : f[i] = f[j] => i = j

Inversions(f, n) == Cardinality({ij \in (0..(n - 1)) \X (0..(n - 1)) : ij[1] < ij[2] /\ f[ij[1]] > f[ij[2]]})

SignOf(f, n) == IF Inversions(f, n) % 2 = 0 THEN 1 ELSE -1

Bijections(n) == {f \in [0..(n - 1) -> 0..(n - 1)] : IsPermutationOf(f, n)}

RECURSIVE DiagProduct(_, _, _)
\* the product of M[i][f[i]] for i < n
DiagProduct(M, f, n) == IF n = 0 THEN COne ELSE CMul(DiagProduct(M, f, n - 1), M[n - 1][f[n - 1]])

RECURSIVE LeibnizSum(_, _, _)
LeibnizSum(M, n, fs) ==
    IF fs = {} THEN CZero
    ELSE LET f == CHOOSE g \in fs : TRUE
         IN CAdd(CMul(R(SignOf(f, n)), DiagProduct(M, f, n)), LeibnizSum(M, n, fs \ {f}))

\* the determinant of the leading n x n block of M
LeibnizDet(M, n) == LeibnizSum(M, n, Bijections(n))

RECURSIVE SeqSum(_)
SeqSum(q) == IF q = << >> THEN 0 ELSE Head(q) + SeqSum(Tail(q))

(***************************************************************************)
(* Claims about the permutation engine and the determinant overlap,        *)
(* checked under SpecDet.                                                  *)
(***************************************************************************)
\* C3: for ndocc >= 1, compute_hf_overlap(ndocc, M) returns the determinant
\* (Leibniz expansion) of the leading ndocc x ndocc block of M: M[0,0] for
\* ndocc = 1, M[0,0]*M[1,1] - M[0,1]*M[1,0] for ndocc = 2, and 1 when M is
\* the identity.
C3_HfOverlapIsDeterminant ==
    (hf.status # "none" /\ ndocc >= 1) =>
        /\ hf.status = "ok"
        /\ hf.value = LeibnizDet(mo_overlap, ndocc)
        /\ ndocc = 1 => hf.value = mo_overlap[0][0]
        /\ ndocc = 2 => hf.value = CSub(CMul(mo_overlap[0][0], mo_overlap[1][1]),
                                        CMul(mo_overlap[0][1], mo_overlap[1][0]))
        /\ mo_overlap = Identity(nbf) => hf.value = COne

\* C3 witness: the double permutation sum has run for ndocc = 3 on a matrix
\* that is not the identity and whose determinant is neither 0 nor 1.
C3_Witness ==
    /\ hf.status = "ok"
    /\ ndocc = 3
    /\ mo_overlap # Identity(nbf)
    /\ hf.value \notin {CZero, COne}
    /\ hf.value.im # 0

\* C4 (as claimed): with the table of compute_perms, compute_hf_overlap1
\* returns the same value as compute_hf_overlap, for every ndocc >= 1.
C4_OverlapFormsAgree ==
    (hf.status # "none" /\ hf1.status # "none" /\ ndocc >= 1) => hf1 = hf

\* C5: for ndocc >= 1 the table holds exactly ndocc! pairwise distinct
\* permutations of {0..ndocc-1}; the parity list is as long and parity[i] is
\* the sign of permutation[i]; for ndocc >= 2 the parities sum to 0.
C5_PermutationTable ==
    (perm_table.done /\ ndocc >= 1) =>
        /\ Len(perm_table.permutation) = Factorial(ndocc)
        /\ Len(perm_table.parity) = Len(perm_table.permutation)
        /\ \A i \in 1..Len(perm_table.permutation) :
               /\ IsPermutationOf(perm_table.permutation[i], ndocc)
               /\ perm_table.parity[i] = SignOf(perm_table.permutation[i], ndocc)
        /\ \A i, j \in 1..Len(perm_table.permutation) :
               perm_table.permutation[i] = perm_table.permutation[j] => i = j
        /\ ndocc >= 2 => SeqSum(perm_table.parity) = 0

\* C5 witness: a table of 24 permutations (ndocc = 4) with both parities.
C5_Witness ==
    /\ perm_table.done
    /\ ndocc = 4
    /\ Len(perm_table.permutation) = 24
    /\ \E i, j \in 1..Len(perm_table.parity) :
           perm_table.parity[i] = 1 /\ perm_table.parity[j] = -1

\* C6 (as claimed): for ndocc = 0 the engine produces exactly one (empty)
\* permutation with parity +1, and compute_hf_overlap(0, M) returns 1
\* without raising.
C6_ZeroOccupied ==
    ndocc = 0 =>
        /\ perm_table.done =>
               /\ perm_table.permutation = <<Arange(0)>>
               /\ perm_table.parity = <<1>>
        /\ hf.status # "none" => hf = Returned(COne)

(***************************************************************************)
(* Claims about the phase correction (checked under SpecPhase) and about   *)
(* the MO overlap (checked under SpecMo).                                  *)
(***************************************************************************)
\* mo_overlap1 of compute_phase for the reference and the coefficients kw
RefOverlap(kw) ==
    compute_mo_overlap(ndocc, nbf, unperturbed_basis, unperturbed_wfn, ket_basis, kw)

\* the diagonal reference/ket overlaps are all non-zero
DiagonalNonZero == \A m \in 0..(nbf - 1) : RefOverlap(ket_wfn)[m][m] # CZero

\* C8: phase correction is idempotent: with non-zero diagonal overlaps,
\* compute_phase applied to pc = compute_phase(.., ket_wfn) returns pc, and
\* every phase factor of the second pass is 1.
C8_PhaseIdempotent ==
    (pc_again.status = "ok" /\ DiagonalNonZero) =>
        /\ pc_again.value = pc.value
        /\ \A m \in 0..(nbf - 1) : phase_factor(RefOverlap(pc.value), m) = COne

\* C8 witness: a second pass has run on a 2 x 2 wavefunction whose first pass
\* changed it by a phase factor that is not real.
C8_Witness ==
    /\ pc_again.status = "ok"
    /\ nbf = 2
    /\ DiagonalNonZero
    /\ pc.value # ket_wfn
    /\ \E m \in 0..(nbf - 1) : phase_factor(RefOverlap(ket_wfn), m).im # 0

\* C9 (as claimed): when some diagonal overlap mo_overlap1[m][m] is exactly
\* zero, compute_phase ends in an error; it returns no coefficient matrix.
C9_ZeroOverlapRaises ==
    (pc.status # "none" /\ ~DiagonalNonZero) => pc.status \notin {"none", "ok"}

\* C10: with S_AB = transpose(S_BA), compute_mo_overlap(A, B)[m, n] is the
\* conjugate of compute_mo_overlap(B, A)[n, m] for all m, n < nbf.
C10_MoOverlapConjugateSymmetric ==
    (/\ mo_ab.status = "ok"
     /\ mo_ba.status = "ok"
     /\ ao_overlap(unperturbed_basis, ket_basis)
            = Transpose(ao_overlap(ket_basis, unperturbed_basis))) =>
        \A m, n \in 0..(nbf - 1) : mo_ab.value[m][n] = CConj(mo_ba.value[n][m])

\* C10 witness: both overlaps computed across two different bases whose
\* cross overlap is not symmetric, with a complex off-diagonal entry.
C10_Witness ==
    /\ mo_ab.status = "ok"
    /\ mo_ba.status = "ok"
    /\ nbf = 2
    /\ ket_basis # unperturbed_basis
    /\ ao_overlap(unperturbed_basis, ket_basis) # ao_overlap(ket_basis, unperturbed_basis)
    /\ mo_ab.value[0][1].im # 0
    /\ mo_ab.value[0][1] # mo_ba.value[1][0]


(***************************************************************************)
(* Claims about the AAT assembler (checked under SpecAat).                 *)
(***************************************************************************)
\* the stencil value the claim states, from the locals of the call
StencilOf(o) ==
    CDiv(CAdd(CSub(CSub(o.hf_pp, o.hf_np), o.hf_pn), o.hf_nn),
         CMul(CMul(R(2), aat.nuc_pert_strength), aat.mag_pert_strength))

\* the four overlaps and the two steps of the worked example
MockOverlaps(o) ==
    /\ o.hf_pp = R(1)
    /\ o.hf_np = C(1, 0, 2)
    /\ o.hf_pn = C(3, 0, 10)
    /\ o.hf_nn = C(9, 0, 10)
    /\ aat.nuc_pert_strength = C(1, 0, 100)
    /\ aat.mag_pert_strength = C(1, 0, 100)

\* C2: given the four determinant overlaps and non-zero steps, compute_aat
\* and compute_aat1 return (hf_pp - hf_np - hf_pn + hf_nn) / (2 * nuc * mag);
\* for overlaps 1, 1/2, 3/10, 9/10 and both steps 1/100 that is 5500.
C2_AatStencil ==
    (aat_out.status = "ok" /\ aat_out.fn \in {"compute_aat", "compute_aat1"}) =>
        /\ aat_out.I = StencilOf(aat_out)
        /\ MockOverlaps(aat_out) => aat_out.I = R(5500)

\* C2 witness: a call has returned with the overlaps and steps of the worked
\* example as its locals, and its result is 5500.
C2_Witness ==
    /\ aat_out.status = "ok"
    /\ aat_out.fn = "compute_aat"
    /\ MockOverlaps(aat_out)
    /\ aat_out.I = R(5500)

\* the positive and the negative nuclear samples of direction alpha are the same
NucSamplesIdentical ==
    /\ aat.nuc_pos_wfn[alpha] = aat.nuc_neg_wfn[alpha]
    /\ aat.nuc_pos_basis[alpha] = aat.nuc_neg_basis[alpha]

\* the positive and the negative magnetic samples of direction beta are the same
MagSamplesIdentical ==
    /\ aat.mag_pos_wfn[beta] = aat.mag_neg_wfn[beta]
    /\ aat.mag_pos_basis[beta] = aat.mag_neg_basis[beta]

\* C11 (as claimed): when the positive and negative samples of one
\* perturbation type are identical, compute_aat(alpha, beta) and
\* compute_aat1(alpha, beta) return 0.
C11_IdenticalSamplesGiveZero ==
    (aat_out.fn # "none" /\ (NucSamplesIdentical \/ MagSamplesIdentical)) =>
        /\ aat_out.status = "ok"
        /\ aat_out.I = CZero

\* C14 (as claimed): over any sequence of compute_aat and compute_aat1 calls
\* on one AAT instance the permutation table is generated (heaperm run from
\* the top) at most once; later determinant overlaps reuse it.
C14_PermutationTableCached == heaperm_runs <= 1

(***************************************************************************)
(* Claims about the finite-difference driver (checked under SpecFd).       *)
(***************************************************************************)
\* C1 (as claimed): for method 'HF' every sweep returns the six lists pos_e,
\* neg_e, pos_wfns, neg_wfns, pos_basis, neg_basis, each with one entry per
\* direction.
C1_HfReturnsSixLists ==
    (fd_pc = "returned" /\ parameters.method = "HF") =>
        /\ retval.kind = "tuple"
        /\ Len(retval.value) = 6
        /\ \A i \in 1..6 : Len(retval.value[i]) = NumDirections

\* the shared staged state has its unperturbed value
StagedStateUnperturbed ==
    /\ molecule = orig.geom
    /\ parameters.geom = orig.text
    /\ parameters.F_el = orig.F_el
    /\ parameters.F_mag = orig.F_mag

\* C7 (as claimed): in every sweep the staged state (molecule geometry and
\* parameters['geom'], parameters['F_el'], parameters['F_mag']) has its
\* unperturbed value at the end of every loop iteration and at the return.
C7_StagedStateRestored ==
    (sweep # "none" /\ fd_pc \in {"perturb", "finish", "returned"}) => StagedStateUnperturbed


\* the method names the spec supports
SupportedMethods == {"HF", "MP2", "CID"}

\* C12 (as claimed): with a method name outside {HF, MP2, CID} the driver
\* fails at configuration time: no sweep reaches a Hamiltonian build or a
\* solver call, completes, or returns a value.
C12_UnsupportedMethodFatal ==
    (fd_pc # "idle" /\ parameters.method \notin SupportedMethods) =>
        /\ fd_pc \notin {"solve", "reset", "finish", "returned"}
        /\ ~H.built
        /\ retval.kind \notin {"tuple", "None"}


\* compute_phase of the solver's coefficients for direction a of the loop
\* sign, against the unperturbed reference
PhaseCorrectedSample(sign, a) ==
    compute_phase(ndocc, nbf, unperturbed_basis, unperturbed_wfn,
                  BuiltBasis(sign, a), SolverWfn(sign, a))

\* C13 (as claimed): every matrix recorded in pos_wfns / neg_wfns, for every
\* method and every sweep, is the output of compute_phase of the solver's
\* coefficients against the unperturbed reference.
C13_RecordedWfnsPhaseCorrected ==
    /\ \A k \in 1..Len(lists.pos_wfns) : lists.pos_wfns[k] = PhaseCorrectedSample("pos", k - 1)
    /\ \A k \in 1..Len(lists.neg_wfns) : lists.neg_wfns[k] = PhaseCorrectedSample("neg", k - 1)


\* the displacement the loop running applies: +pert_strength or -pert_strength
AppliedStep == IF fd_sign = "pos" THEN pert_strength ELSE -pert_strength

\* the geometry differs from the unperturbed one in entry (alpha // 3, alpha % 3)
\* only, by d, and parameters['geom'] is its text
GeometryDisplacedBy(d) ==
    /\ \A a \in 0..(natom - 1) : \A x \in 0..2 :
          molecule[a][x] - orig.geom[a][x]
              = IF a = fd_alpha \div 3 /\ x = fd_alpha % 3 THEN d ELSE 0
    /\ parameters.geom = create_psi4_string_from_molecule(molecule)

\* the field F differs from the unperturbed F0 in component alpha only, by d
FieldDisplacedBy(F, F0, d) ==
    \A x \in 0..2 : F[x] - F0[x] = IF x = fd_alpha THEN d ELSE 0

\* C15 (as claimed): at every Hamiltonian build / SCF solve of a sweep for
\* direction alpha the staged state differs from the unperturbed one in
\* exactly one component, by exactly +pert_strength (positive loop) or
\* -pert_strength (negative loop): geometry entry (alpha // 3, alpha % 3) in
\* the nuclear sweep, field component alpha in a field sweep; distinct alpha
\* give distinct components.
C15_DisplacementsNeverAccumulate ==
    (fd_pc \in {"solve", "reset"}) =>
        /\ sweep = "nuclear" =>
              /\ GeometryDisplacedBy(AppliedStep)
              /\ FieldDisplacedBy(parameters.F_el, orig.F_el, 0)
              /\ FieldDisplacedBy(parameters.F_mag, orig.F_mag, 0)
        /\ sweep = "electric" =>
              /\ GeometryDisplacedBy(0)
              /\ FieldDisplacedBy(parameters.F_el, orig.F_el, AppliedStep)
              /\ FieldDisplacedBy(parameters.F_mag, orig.F_mag, 0)
        /\ sweep = "magnetic" =>
              /\ GeometryDisplacedBy(0)
              /\ FieldDisplacedBy(parameters.F_el, orig.F_el, 0)
              /\ FieldDisplacedBy(parameters.F_mag, orig.F_mag, AppliedStep)
        /\ \A a, b \in 0..(NumDirections - 1) :
              a # b => <<a \div 3, a % 3>> # <<b \div 3, b % 3>>


\* C16: when a Hamiltonian build or solver call raises during direction
\* alpha, the exception leaves the driver uncaught, no lists are returned,
\* and the shared state keeps its perturbed value: the geometry and
\* parameters['geom'] (nuclear) are the displaced copy of self.geom, and
\* component alpha of parameters['F_el'] / parameters['F_mag'] (field) is
\* still displaced by +/-pert_strength from the value the sweep was called
\* with.
C16_RaiseLeavesStatePerturbed ==
    (fd_pc = "raised") =>
        /\ retval = [kind |-> "exception", value |-> << >>]
        /\ sweep = "nuclear" =>
              /\ GeometryDisplacedBy(AppliedStep)
              /\ molecule # orig.geom
              /\ parameters.geom # orig.text
              /\ parameters.F_el = entry.F_el
              /\ parameters.F_mag = entry.F_mag
        /\ sweep = "electric" =>
              /\ FieldDisplacedBy(parameters.F_el, entry.F_el, AppliedStep)
              /\ parameters.F_el # entry.F_el
              /\ parameters.F_mag = entry.F_mag
              /\ molecule = entry.molecule /\ parameters.geom = entry.geom
        /\ sweep = "magnetic" =>
              /\ FieldDisplacedBy(parameters.F_mag, entry.F_mag, AppliedStep)
              /\ parameters.F_mag # entry.F_mag
              /\ parameters.F_el = entry.F_el
              /\ molecule = entry.molecule /\ parameters.geom = entry.geom

\* C16 witness: on an object whose electric-field sweep had raised, a second
\* call of the electric-field sweep raised in the negative loop, after every
\* direction of the positive loop had been recorded.
C16_Witness ==
    /\ fd_pc = "raised"
    /\ fd_calls = 2
    /\ sweep = "electric"
    /\ fd_sign = "neg"
    /\ fd_alpha = 1
    /\ Len(lists.pos_basis) = 3
    /\ retval.kind = "exception"
    /\ entry.F_el # orig.F_el
    /\ parameters.F_el[1] = entry.F_el[1] - pert_strength

=============================================================================
